---- MODULE Spec2Model ----
(***************************************************************************)
(* Model of trigger.py, the command-line client that asks a local          *)
(* automation server to create a Premiere Pro project: one GET /status     *)
(* readiness gate, then at most one POST /create-project.                  *)
(*                                                                         *)
(* Python values are modelled structurally: a str is a sequence of         *)
(* characters, a parsed JSON value is a tagged record, a dict is a         *)
(* function from its keys, and a raised exception is the name of its       *)
(* class, dispatched through the except clauses by the class hierarchy.    *)
(* Writes to stdout are assumed to succeed.                                *)
(***************************************************************************)
EXTENDS Integers, Sequences, FiniteSets, TLC

\* ------------------------------------------------------------------ bounds
\* Longest argument string passed to create_project when it is explored as
\* a function of its arguments (SpecFn).
MaxArgLen == 1

\* Largest number of command-line arguments after argv[0] (Spec).
MaxArgc == 3

\* ------------------------------------------------------- program constants
StatusTimeout == 5

CreateTimeout == 60

\* -------------------------------------------------------------- characters
QUOTE == "\""

BSLASH == "\\"

\* A character outside ASCII (the default preset name is Korean).
HANGUL == "U+C1FC"

Alphabet == {"F", QUOTE, BSLASH, HANGUL}

Strings(n) == UNION {[1..k -> Alphabet] : k \in 0..n}

\* ------------------------------------------------- Python argument values
None == [isNone |-> TRUE, s |-> <<>>]

Str(s) == [isNone |-> FALSE, s |-> s]

ArgValues == {None} \cup {Str(s) : s \in Strings(MaxArgLen)}

\* Truth value of `if project_name:` for None or a str.
ArgTruthy(a) == ~a.isNone /\ Len(a.s) > 0

\* sys.argv[i] if len(sys.argv) > i else None; args is sys.argv[1:].
ArgOrNone(args, i) == IF Len(args) >= i THEN Str(args[i]) ELSE None

\* ------------------------------------------------------- request payload
\* PayloadEntry testing `is not None` in place of truth.
PayloadEntryIfNotNone(key, a) == IF ~a.isNone THEN <<[key |-> key, val |-> a.s]>> ELSE <<>>

PayloadEntry(key, a) == IF ArgTruthy(a) THEN <<[key |-> key, val |-> a.s]>> ELSE <<>>

\* The dict built at lines 24-30, as its items in insertion order.
BuildPayload(project_name, sequence_name, preset_name) ==
    PayloadEntry("projectName", project_name)
        \o PayloadEntry("sequenceName", sequence_name)
        \o PayloadEntry("presetName", preset_name)

\* EscapeChar leaving the double quote as it is.
EscapeCharQuoteUnescaped(c, ensure_ascii) ==
    IF c = BSLASH THEN <<BSLASH, BSLASH>>
    ELSE IF c = HANGUL /\ ensure_ascii THEN <<BSLASH, "u", "c", "1", "f", "c">>
    ELSE <<c>>

\* json.dumps of one character of a str.
EscapeChar(c, ensure_ascii) ==
    IF c = QUOTE THEN <<BSLASH, QUOTE>>
    ELSE IF c = BSLASH THEN <<BSLASH, BSLASH>>
    ELSE IF c = HANGUL /\ ensure_ascii THEN <<BSLASH, "u", "c", "1", "f", "c">>
    ELSE <<c>>

RECURSIVE EscapeStr(_, _)
EscapeStr(s, ensure_ascii) ==
    IF s = <<>> THEN <<>>
    ELSE EscapeChar(Head(s), ensure_ascii) \o EscapeStr(Tail(s), ensure_ascii)

DumpsString(s, ensure_ascii) == <<QUOTE>> \o EscapeStr(s, ensure_ascii) \o <<QUOTE>>

RECURSIVE DumpsItems(_, _)
DumpsItems(items, ensure_ascii) ==
    IF items = <<>> THEN <<>>
    ELSE <<QUOTE, Head(items).key, QUOTE, ":", " ">>
            \o DumpsString(Head(items).val, ensure_ascii)
            \o (IF Len(items) > 1 THEN <<",", " ">> ELSE <<>>)
            \o DumpsItems(Tail(items), ensure_ascii)

\* json.dumps(payload): the text of the JSON object, one element per
\* character (a key name is one element).
Dumps(payload, ensure_ascii) == <<"{">> \o DumpsItems(payload, ensure_ascii) \o <<"}">>

\* Line 38: json.dumps(payload).encode('utf-8') if payload else b'{}'.
\* The dumped text is pure ASCII, so encoding it changes nothing.
RequestData(payload) == IF payload # <<>> THEN Dumps(payload, TRUE) ELSE <<"{", "}">>

\* ------------------------------------------------------ parsed JSON values
JNull == [t |-> "null", n |-> 0, s |-> ""]

JBool(b) == [t |-> "bool", n |-> IF b THEN 1 ELSE 0, s |-> ""]

JInt(n) == [t |-> "int", n |-> n, s |-> ""]

JStr(s) == [t |-> "str", n |-> 0, s |-> s]

\* A JSON array with n elements.
JList(n) == [t |-> "list", n |-> n, s |-> ""]

\* A JSON object with n members, as a value inside a response.
JDict(n) == [t |-> "dict", n |-> n, s |-> ""]

\* Python truth value of a parsed JSON value.
Truthy(v) ==
    CASE v.t = "null" -> FALSE
      [] v.t = "bool" -> v.n = 1
      [] v.t = "int"  -> v.n # 0
      [] v.t = "str"  -> v.s # ""
      [] OTHER        -> v.n > 0

\* GreaterThanZero comparing with >=.
GreaterOrEqualZero(v) ==
    IF v.t \in {"int", "bool"} THEN [exc |-> "none", val |-> v.n >= 0]
    ELSE [exc |-> "TypeError", val |-> FALSE]

\* `v > 0`: defined for int and bool (an int subclass), TypeError otherwise.
GreaterThanZero(v) ==
    IF v.t \in {"int", "bool"} THEN [exc |-> "none", val |-> v.n > 0]
    ELSE [exc |-> "TypeError", val |-> FALSE]

\* ------------------------------------------------------- response bodies
EmptyObj == [k \in {} |-> JNull]

\* A response body: bytes that are not UTF-8, text that is not JSON, a JSON
\* value that is not an object, or a JSON object.
Body(form, scalar, obj) == [form |-> form, scalar |-> scalar, obj |-> obj]

NonObjectBodies ==
    {Body("invalid_utf8", JNull, EmptyObj), Body("malformed", JNull, EmptyObj)}
        \cup {Body("scalar", v, EmptyObj) : v \in {JNull, JInt(1), JList(0)}}

\* response.read().decode('utf-8') followed by json.loads.
Loads(body) ==
    CASE body.form = "invalid_utf8" -> "UnicodeDecodeError"
      [] body.form = "malformed"    -> "JSONDecodeError"
      [] OTHER                      -> "none"

\* result.get(key, default): only a dict has .get.
Get(body, key, default) ==
    IF body.form # "object" THEN [exc |-> "AttributeError", val |-> default]
    ELSE [exc |-> "none",
          val |-> IF key \in DOMAIN body.obj THEN body.obj[key] ELSE default]

\* -------------------------------------------------------------- exceptions
ExcParent ==
    [c \in {"BaseException", "Exception", "OSError", "URLError", "HTTPError",
            "TimeoutError", "ConnectionResetError", "ValueError",
            "JSONDecodeError", "UnicodeDecodeError", "AttributeError", "TypeError"} |->
        CASE c = "BaseException"        -> "BaseException"
          [] c = "Exception"            -> "BaseException"
          [] c = "OSError"              -> "Exception"
          [] c = "URLError"             -> "OSError"
          [] c = "HTTPError"            -> "URLError"
          [] c = "TimeoutError"         -> "OSError"
          [] c = "ConnectionResetError" -> "OSError"
          [] c = "ValueError"           -> "Exception"
          [] c = "JSONDecodeError"      -> "ValueError"
          [] c = "UnicodeDecodeError"   -> "ValueError"
          [] c = "AttributeError"       -> "Exception"
          [] c = "TypeError"            -> "Exception"]

RECURSIVE IsInstance(_, _)
IsInstance(exc, cls) ==
    IF exc = cls THEN TRUE
    ELSE IF exc = "BaseException" THEN FALSE
    ELSE IsInstance(ExcParent[exc], cls)

\* Index of the first except clause that catches exc, 0 when none does.
RECURSIVE Handler(_, _, _)
Handler(clauses, exc, i) ==
    IF i > Len(clauses) THEN 0
    ELSE IF IsInstance(exc, clauses[i]) THEN i
    ELSE Handler(clauses, exc, i + 1)

\* check_status: a bare `except:`.
CheckStatusClauses == <<"BaseException">>

\* create_project without its generic `except Exception` clause.
OnlyURLErrorClause == <<"URLError">>

\* create_project: `except urllib.error.URLError`, then `except Exception`.
CreateProjectClauses == <<"URLError", "Exception">>

\* ------------------------------------------------- outcomes of an HTTP call
Event(kind, status, body) == [kind |-> kind, status |-> status, body |-> body]

NoBody == Body("malformed", JNull, EmptyObj)

\* Failures before or while the response arrives.
TransportKinds == {"refused", "dns", "connect_timeout", "response_timeout", "reset"}

TransportEvents == {Event(k, 0, NoBody) : k \in TransportKinds}

\* What urlopen(req, timeout=...) and response.read() raise for an outcome:
\* a failure to connect or send is wrapped in URLError, a status outside 2xx
\* is HTTPError, a timeout or disconnect while the response is awaited or
\* read is raised as it is.
Raised(ev) ==
    CASE ev.kind \in {"refused", "dns", "connect_timeout"} -> "URLError"
      [] ev.kind = "response_timeout"                     -> "TimeoutError"
      [] ev.kind = "reset"                                -> "ConnectionResetError"
      [] ev.kind = "http" /\ ~(ev.status >= 200 /\ ev.status < 300)
                                                          -> "HTTPError"
      [] OTHER                                            -> "none"

\* ------------------------------------------------------- /status responses
Restrict(f, keys) == [k \in keys |-> f[k]]

StatusFields(cc) ==
    [k \in {"connectedClients", "defaultSavePath", "defaultPreset", "defaultSequence"} |->
        CASE k = "connectedClients" -> cc
          [] k = "defaultSavePath"  -> JStr("D:/projects")
          [] k = "defaultPreset"    -> JStr("Shorts")
          [] OTHER                  -> JStr("Main")]

\* The fields beside connectedClients: none, the minimal variant's, the
\* extended variant's.
StatusKeySets ==
    {{}, {"defaultSavePath"}, {"defaultSavePath", "defaultPreset", "defaultSequence"}}

\* Values a server may put in connectedClients, of the right type or not.
ConnectedClientsValues ==
    {JNull, JBool(TRUE), JBool(FALSE), JInt(-1), JInt(0), JInt(1), JInt(2), JStr("1"), JList(1)}

StatusObjects ==
    {Restrict(StatusFields(cc), {"connectedClients"} \cup ks) :
        cc \in ConnectedClientsValues, ks \in StatusKeySets}
      \cup {Restrict(StatusFields(JNull), ks) : ks \in StatusKeySets}

StatusBodies == NonObjectBodies \cup {Body("object", JNull, o) : o \in StatusObjects}

ErrorStatuses == {500, 503}

StatusEvents ==
    TransportEvents
      \cup {Event("http", 200, b) : b \in StatusBodies}
      \cup {Event("http", st, Body("object", JNull, StatusFields(JInt(1)))) : st \in ErrorStatuses}

\* ----------------------------------------------- /create-project responses
ResultFields(success, error) ==
    [k \in {"success", "error", "projectName", "projectPath", "sequenceName", "presetUsed"} |->
        CASE k = "success"      -> success
          [] k = "error"        -> error
          [] k = "projectName"  -> JStr("Foo")
          [] k = "projectPath"  -> JStr("/a/Foo.prproj")
          [] k = "sequenceName" -> JStr("Bar")
          [] OTHER              -> JStr("Shorts")]

\* The fields beside success and error: none, the minimal variant's, the
\* extended variant's.
ResultKeySets ==
    {{}, {"projectName", "projectPath"},
     {"projectName", "projectPath", "sequenceName", "presetUsed"}}

\* Values a server may put in success, boolean or not.
SuccessValues ==
    {JNull, JBool(TRUE), JBool(FALSE), JInt(0), JInt(1), JStr("false"), JList(0),
     JDict(1)}

ErrorMessages == {JStr("disk full"), JStr("No plugin connected")}

ResultObjects ==
    {Restrict(ResultFields(sv, er), se \cup ks) :
        sv \in SuccessValues, er \in ErrorMessages,
        se \in SUBSET {"success", "error"}, ks \in ResultKeySets}

CreateBodies == NonObjectBodies \cup {Body("object", JNull, o) : o \in ResultObjects}

\* Bodies a server may deliver with an error status.
ErrorStatusBodies ==
    {Body("object", JNull, Restrict(ResultFields(JBool(FALSE), er), {"success", "error"})) :
        er \in ErrorMessages}
      \cup {Body("object", JNull, Restrict(ResultFields(JBool(TRUE), JNull),
                                           {"success", "projectName", "projectPath"})),
            Body("malformed", JNull, EmptyObj)}

CreateEvents ==
    TransportEvents
      \cup {Event("http", 200, b) : b \in CreateBodies}
      \cup {Event("http", st, b) : st \in ErrorStatuses, b \in ErrorStatusBodies}

\* ------------------------------------------------------------ check_status
\* Lines 70-85 once the GET has resolved as ev: the value returned, the lines
\* printed, and the exception (if any) that leaves the function.
CheckStatus(ev) ==
    LET body    == ev.body
        e1      == IF Raised(ev) # "none" THEN Raised(ev) ELSE Loads(body)
        cc      == Get(body, "connectedClients", JInt(0))
        header  == << <<"Server status:", JNull>> >>
        fields  == << <<"Connected plugins", cc.val>>,
                      <<"Save path", Get(body, "defaultSavePath", JStr("N/A")).val>>,
                      <<"Default preset", Get(body, "defaultPreset", JStr("N/A")).val>>,
                      <<"Default sequence", Get(body, "defaultSequence", JStr("N/A")).val>> >>
        cmp     == GreaterThanZero(cc.val)
        try     == IF e1 # "none" THEN [exc |-> e1, out |-> <<>>, ret |-> FALSE]
                   ELSE IF cc.exc # "none" THEN [exc |-> cc.exc, out |-> header, ret |-> FALSE]
                   ELSE IF cmp.exc # "none"
                        THEN [exc |-> cmp.exc, out |-> header \o fields, ret |-> FALSE]
                   ELSE [exc |-> "none", out |-> header \o fields, ret |-> cmp.val]
        h       == Handler(CheckStatusClauses, try.exc, 1)
    IN  IF try.exc = "none" THEN [ret |-> try.ret, out |-> try.out, uncaught |-> "none"]
        ELSE IF h = 1
             THEN [ret |-> FALSE, out |-> try.out \o << <<"Cannot connect to server", JNull>> >>,
                   uncaught |-> "none"]
        ELSE [ret |-> FALSE, out |-> try.out, uncaught |-> try.exc]

\* ---------------------------------------------------------- create_project
ConnectionFailedLines ==
    << <<"Connection failed: Server not running?", JNull>>,
       <<"1. cd server", JNull>>,
       <<"2. npm start", JNull>>,
       <<"3. Load plugin in Premiere Pro", JNull>> >>

\* Lines 46-68 once the POST has resolved as ev.
CreateProjectResponse(ev) ==
    LET body == ev.body
        e1   == IF Raised(ev) # "none" THEN Raised(ev) ELSE Loads(body)
        succ == Get(body, "success", JNull)
        try  == IF e1 # "none" THEN [exc |-> e1, out |-> <<>>, ret |-> FALSE]
                ELSE IF succ.exc # "none" THEN [exc |-> succ.exc, out |-> <<>>, ret |-> FALSE]
                ELSE IF Truthy(succ.val)
                     THEN [exc |-> "none", ret |-> TRUE,
                           out |-> << <<"SUCCESS!", JNull>>,
                                      <<"Project", Get(body, "projectName", JNull).val>>,
                                      <<"Sequence", Get(body, "sequenceName", JNull).val>>,
                                      <<"Preset", Get(body, "presetUsed", JNull).val>>,
                                      <<"Path", Get(body, "projectPath", JNull).val>> >>]
                ELSE [exc |-> "none", ret |-> FALSE,
                      out |-> << <<"FAILED", Get(body, "error", JStr("Unknown error")).val>> >>]
        h    == Handler(CreateProjectClauses, try.exc, 1)
    IN  IF try.exc = "none" THEN [ret |-> try.ret, out |-> try.out, uncaught |-> "none"]
        ELSE IF h = 1 THEN [ret |-> FALSE, out |-> ConnectionFailedLines, uncaught |-> "none"]
        ELSE IF h = 2
             THEN [ret |-> FALSE, out |-> << <<"Error", JStr(try.exc)>> >>, uncaught |-> "none"]
        ELSE [ret |-> FALSE, out |-> <<>>, uncaught |-> try.exc]

\* ------------------------------------------------------------------- state
VARIABLES
    argv,           \* sys.argv[1:]
    project_name,   \* the three arguments of create_project
    sequence_name,
    preset_name,
    pc,             \* where the process is
    calls,          \* the HTTP calls issued so far, in order
    out,            \* the lines printed so far
    ready,          \* value returned by check_status
    success,        \* value returned by create_project
    uncaught,       \* class of an exception that left a function, or "none"
    exitCode        \* process exit status, -1 while running

vars == <<argv, project_name, sequence_name, preset_name, pc, calls, out,
          ready, success, uncaught, exitCode>>

Pending == Event("pending", 0, NoBody)

Call(method, path, hasData, data, timeout) ==
    [method |-> method, path |-> path, hasData |-> hasData, data |-> data,
     timeout |-> timeout, result |-> Pending]

Resolve(cs, ev) == [cs EXCEPT ![Len(cs)].result = ev]

\* Argument strings given on the command line.
MainArgStrings == {<<>>, <<"F">>}

Argvs == UNION {[1..k -> MainArgStrings] : k \in 0..MaxArgc}

Init ==
    /\ argv \in Argvs
    /\ project_name = None
    /\ sequence_name = None
    /\ preset_name = None
    /\ pc = "start"
    /\ calls = <<>>
    /\ out = <<>>
    /\ ready = FALSE
    /\ success = FALSE
    /\ uncaught = "none"
    /\ exitCode = -1

\* Lines 89-99: parse the arguments, print the banner, enter check_status,
\* which issues GET /status.
MainStart ==
    /\ pc = "start"
    /\ project_name' = ArgOrNone(argv, 1)
    /\ sequence_name' = ArgOrNone(argv, 2)
    /\ preset_name' = ArgOrNone(argv, 3)
    /\ out' = out \o << <<"Premiere Pro Remote Project Creator v2.0", JNull>> >>
    /\ calls' = Append(calls, Call("GET", "/status", FALSE, <<>>, StatusTimeout))
    /\ pc' = "status_wait"
    /\ UNCHANGED <<argv, ready, success, uncaught, exitCode>>

\* An exception nothing catches ends the process with a traceback, status 1.
Die(exc) ==
    /\ uncaught' = exc
    /\ exitCode' = 1
    /\ pc' = "exited"

\* The GET resolves and check_status returns.
CheckStatusReturn ==
    /\ pc = "status_wait"
    /\ \E ev \in StatusEvents :
        LET r == CheckStatus(ev) IN
        /\ calls' = Resolve(calls, ev)
        /\ out' = out \o r.out
        /\ ready' = r.ret
        /\ IF r.uncaught = "none"
           THEN pc' = "gate" /\ UNCHANGED <<uncaught, exitCode>>
           ELSE Die(r.uncaught)
    /\ UNCHANGED <<argv, project_name, sequence_name, preset_name, success>>

\* MainNotReady trying the status call again instead of giving up.
MainNotReadyRetry ==
    /\ pc = "gate"
    /\ ~ready
    /\ out' = out \o << <<"", JNull>> >>
    /\ calls' = Append(calls, Call("GET", "/status", FALSE, <<>>, StatusTimeout))
    /\ pc' = "status_wait"
    /\ UNCHANGED <<argv, project_name, sequence_name, preset_name, ready, success,
                   uncaught, exitCode>>

\* Lines 99-101: the gate is closed.
MainNotReady ==
    /\ pc = "gate"
    /\ ~ready
    /\ out' = out \o << <<"", JNull>> >>
    /\ exitCode' = 1
    /\ pc' = "exited"
    /\ UNCHANGED <<argv, project_name, sequence_name, preset_name, calls, ready,
                   success, uncaught>>

\* MainReady without the test of check_status's result.
MainReadyUngated ==
    /\ pc = "gate"
    /\ out' = out \o << <<"", JNull>> >>
    /\ pc' = "call"
    /\ UNCHANGED <<argv, project_name, sequence_name, preset_name, calls, ready,
                   success, uncaught, exitCode>>

\* Lines 99-106: the gate is open, create_project is called.
MainReady ==
    /\ pc = "gate"
    /\ ready
    /\ out' = out \o << <<"", JNull>> >>
    /\ pc' = "call"
    /\ UNCHANGED <<argv, project_name, sequence_name, preset_name, calls, ready,
                   success, uncaught, exitCode>>

\* Lines 22-46: build the payload, print it, issue POST /create-project.
CreateProjectCall ==
    /\ pc = "call"
    /\ LET payload == BuildPayload(project_name, sequence_name, preset_name) IN
        /\ out' = out \o << <<"Creating project with sequence...", JNull>>,
                            <<"Server", JStr("http://localhost:3000/create-project")>> >>
                      \o (IF payload # <<>>
                          THEN << <<"Custom", Dumps(payload, FALSE)>> >> ELSE <<>>)
        /\ calls' = Append(calls, Call("POST", "/create-project", TRUE,
                                       RequestData(payload), CreateTimeout))
    /\ pc' = "create_wait"
    /\ UNCHANGED <<argv, project_name, sequence_name, preset_name, ready, success,
                   uncaught, exitCode>>

\* The POST resolves and create_project returns.
CreateProjectReturn ==
    /\ pc = "create_wait"
    /\ \E ev \in CreateEvents :
        LET r == CreateProjectResponse(ev) IN
        /\ calls' = Resolve(calls, ev)
        /\ out' = out \o r.out
        /\ success' = r.ret
        /\ IF r.uncaught = "none"
           THEN pc' = "returned" /\ UNCHANGED <<uncaught, exitCode>>
           ELSE Die(r.uncaught)
    /\ UNCHANGED <<argv, project_name, sequence_name, preset_name, ready>>

\* MainExit exiting with status 0 whatever create_project returned.
MainExitAlwaysZero ==
    /\ pc = "returned"
    /\ out' = out \o << <<"", JNull>> >>
    /\ exitCode' = 0
    /\ pc' = "exited"
    /\ UNCHANGED <<argv, project_name, sequence_name, preset_name, calls, ready,
                   success, uncaught>>

\* Lines 107-109: sys.exit(0 if success else 1).
MainExit ==
    /\ pc = "returned"
    /\ out' = out \o << <<"", JNull>> >>
    /\ exitCode' = IF success THEN 0 ELSE 1
    /\ pc' = "exited"
    /\ UNCHANGED <<argv, project_name, sequence_name, preset_name, calls, ready,
                   success, uncaught>>

Next ==
    \/ MainStart
    \/ CheckStatusReturn
    \/ MainNotReady
    \/ MainReady
    \/ CreateProjectCall
    \/ CreateProjectReturn
    \/ MainExit

Spec == Init /\ [][Next]_vars

\* Every step of the single thread is eventually taken: each call returns
\* or fails within its timeout.
FairSpec == Spec /\ WF_vars(Next)

\* create_project called directly with any combination of arguments.
InitFn ==
    /\ argv = <<>>
    /\ project_name \in ArgValues
    /\ sequence_name \in ArgValues
    /\ preset_name \in ArgValues
    /\ pc = "call"
    /\ calls = <<>>
    /\ out = <<>>
    /\ ready = FALSE
    /\ success = FALSE
    /\ uncaught = "none"
    /\ exitCode = -1

NextFn == CreateProjectCall

SpecFn == InitFn /\ [][NextFn]_vars

\* =================================================================== claims
\* ---------------------------------------------------------- reading helpers
Posts == {i \in DOMAIN calls : calls[i].method = "POST"}

Gets == {i \in DOMAIN calls : calls[i].method = "GET"}

StatusResolved == Gets # {} /\ calls[1].result.kind # "pending"

StatusResult == calls[1].result

CreateResult == calls[CHOOSE i \in Posts : TRUE].result

CreateResolved == Posts # {} /\ CreateResult.kind # "pending"

HasLine(tag) == \E i \in DOMAIN out : out[i][1] = tag

LineValue(tag) == out[CHOOSE i \in DOMAIN out : out[i][1] = tag][2]

\* The call was answered with a 2xx status.
Answered2xx(ev) == ev.kind = "http" /\ ev.status >= 200 /\ ev.status <= 299

\* The call was answered with a JSON object.
AnsweredObject(ev) == Answered2xx(ev) /\ ev.body.form = "object"

HasField(ev, k) == AnsweredObject(ev) /\ k \in DOMAIN ev.body.obj

\* A status response whose connectedClients is a number greater than 0
\* (JSON true is the number 1 to Python).
ReportsReady(ev) ==
    /\ HasField(ev, "connectedClients")
    /\ ev.body.obj["connectedClients"].t \in {"int", "bool"}
    /\ ev.body.obj["connectedClients"].n > 0

\* A status call that failed: no connection, a timeout, an error status, a
\* body that is not a JSON object, or a connectedClients that is no number.
StatusFailed(ev) ==
    \/ ~AnsweredObject(ev)
    \/ /\ HasField(ev, "connectedClients")
       /\ ev.body.obj["connectedClients"].t \notin {"int", "bool"}

\* ---------------------------------------------------------------------- C1
\* C1 (gate enforcement): a POST /create-project is among the calls issued
\* only if the GET /status before it was answered with connectedClients > 0;
\* after a status call that failed, lacked connectedClients or reported 0,
\* the run ends with no creation call.
GateEnforcement ==
    /\ Posts # {} => StatusResolved /\ ReportsReady(StatusResult)
    /\ (pc = "exited" /\ StatusResolved /\ ~ReportsReady(StatusResult)) => Posts = {}

\* The gate was closed by a response with connectedClients = 0 and the run
\* ended after the status call alone.
GateEnforcementWitness ==
    /\ pc = "exited"
    /\ HasField(StatusResult, "connectedClients")
    /\ StatusResult.body.obj["connectedClients"] = JInt(0)
    /\ Len(calls) = 1

\* ---------------------------------------------------------------------- C3
\* C3 (check_status): ready is true exactly when the status call was
\* answered with connectedClients > 0; every failure of the call gives
\* "Cannot connect to server" and ready = false; an object without
\* connectedClients is reported as 0 connected plugins and is not ready.
CheckStatusContract ==
    StatusResolved =>
        /\ ready <=> ReportsReady(StatusResult)
        /\ StatusFailed(StatusResult) <=> HasLine("Cannot connect to server")
        /\ (AnsweredObject(StatusResult) /\ ~HasField(StatusResult, "connectedClients")) =>
              /\ ~ready
              /\ LineValue("Connected plugins") = JInt(0)

CheckStatusContractWitness ==
    /\ pc = "gate"
    /\ ready
    /\ StatusResult.body.obj["connectedClients"] = JInt(2)

\* ---------------------------------------------------------------------- C2
\* Python truth of a JSON value: true, a number that is not 0, a string, an
\* array or an object that is not empty.
IsTruthyJson(v) ==
    \/ v.t = "bool" /\ v.n = 1
    \/ v.t = "int" /\ v.n # 0
    \/ v.t = "str" /\ v.s # ""
    \/ v.t \in {"list", "dict"} /\ v.n > 0

\* C2 as stated: exit status 0 exactly when the gate reported ready and the
\* creation call returned an object whose success field is true, 1 otherwise.
ExitContractAsStated ==
    pc = "exited" =>
        /\ exitCode \in {0, 1}
        /\ exitCode = 0 <=>
              /\ ReportsReady(StatusResult)
              /\ CreateResolved
              /\ HasField(CreateResult, "success")
              /\ CreateResult.body.obj["success"] = JBool(TRUE)

\* C2 (exit contract, amended): exit status 0 exactly when the gate reported
\* ready and the creation call returned a JSON object whose success value is
\* truthy; exit status 1 in every other case.
ExitContract ==
    pc = "exited" =>
        /\ exitCode \in {0, 1}
        /\ exitCode = 0 <=>
              /\ ReportsReady(StatusResult)
              /\ CreateResolved
              /\ HasField(CreateResult, "success")
              /\ IsTruthyJson(CreateResult.body.obj["success"])

ExitContractWitness ==
    /\ pc = "exited"
    /\ exitCode = 0
    /\ CreateResolved
    /\ HasField(CreateResult, "success")
    /\ CreateResult.body.obj["success"] = JBool(TRUE)
    /\ HasLine("SUCCESS!")

\* ---------------------------------------------------------------------- C5
\* C5 (application failure): when the creation call is answered (no
\* transport failure) with a body that has success:false and an error
\* message, the report is FAILED with that message, create_project returns
\* false and the process exits with status 1.
ApplicationFailureSurfaced ==
    (/\ CreateResolved
     /\ CreateResult.kind = "http"
     /\ CreateResult.body.form = "object"
     /\ {"success", "error"} \subseteq DOMAIN CreateResult.body.obj
     /\ CreateResult.body.obj["success"] = JBool(FALSE)) =>
        /\ HasLine("FAILED")
        /\ LineValue("FAILED") = CreateResult.body.obj["error"]
        /\ ~success
        /\ pc = "exited" => exitCode = 1

\* ---------------------------------------------------------------------- C6
\* C6 (gate/action race): when the gate reported ready and the creation call
\* is answered, with whatever HTTP status, by success:false and the error
\* "No plugin connected", no exception escapes and the report is FAILED
\* with that error, not the connection-failed or the unexpected-error report.
GateRaceTolerated ==
    (/\ CreateResolved
     /\ ReportsReady(StatusResult)
     /\ CreateResult.kind = "http"
     /\ CreateResult.body.form = "object"
     /\ {"success", "error"} \subseteq DOMAIN CreateResult.body.obj
     /\ CreateResult.body.obj["success"] = JBool(FALSE)
     /\ CreateResult.body.obj["error"] = JStr("No plugin connected")) =>
        /\ uncaught = "none"
        /\ HasLine("FAILED")
        /\ LineValue("FAILED") = JStr("No plugin connected")
        /\ ~HasLine("Connection failed: Server not running?")
        /\ ~HasLine("Error")

\* ---------------------------------------------------------------------- C7
\* Number of report classes printed for the creation call.
OutcomeClasses ==
    {t \in {"SUCCESS!", "FAILED", "Connection failed: Server not running?", "Error"} :
        HasLine(t)}

\* C7 (classification): the connection-failed report with its three hints is
\* printed exactly for the transport failures of the creation call (no
\* connection, no name, a timeout or disconnect before the response is
\* read), never together with FAILED, and one report class is printed per call.
CreateOutcomeClassification ==
    CreateResolved =>
        /\ CreateResult.kind \in TransportKinds
              <=> HasLine("Connection failed: Server not running?")
        /\ HasLine("Connection failed: Server not running?") =>
              HasLine("3. Load plugin in Premiere Pro") /\ ~HasLine("FAILED")
        /\ Cardinality(OutcomeClasses) = 1

\* ---------------------------------------------------------------------- C8
\* C8 (ordering, no retries): at most one GET /status and one POST
\* /create-project are issued, the GET first; the GET has resolved before
\* the POST is issued; nothing is issued again after a call has failed.
CallOrdering ==
    /\ Len(calls) <= 2
    /\ Cardinality(Gets) <= 1
    /\ Cardinality(Posts) <= 1
    /\ Len(calls) >= 1 => calls[1].method = "GET" /\ calls[1].path = "/status"
    /\ Len(calls) = 2 =>
          /\ calls[2].method = "POST" /\ calls[2].path = "/create-project"
          /\ calls[1].result.kind # "pending"
    /\ Cardinality({i \in DOMAIN calls : calls[i].result.kind = "pending"}) <= 1
    /\ \A i \in DOMAIN calls :
          (calls[i].result.kind # "pending" /\ ~Answered2xx(calls[i].result)) =>
              \A j \in DOMAIN calls : j > i => calls[j].method # calls[i].method

\* Both calls were made, the second one failed, and the run is over.
CallOrderingWitness ==
    /\ pc = "exited"
    /\ Len(calls) = 2
    /\ calls[2].result.kind = "refused"

\* ---------------------------------------------------------------------- C9
\* A creation response that is not a well-formed result: not JSON, not an
\* object, or an object whose success is missing or not a boolean.
UnexpectedShape(ev) ==
    /\ Answered2xx(ev)
    /\ \/ ev.body.form # "object"
       \/ ~HasField(ev, "success")
       \/ ev.body.obj["success"].t # "bool"

Reported ==
    IF Posts = {} THEN HasLine("Cannot connect to server") \/ HasLine("Connected plugins")
    ELSE OutcomeClasses # {}

\* What holds of failure handling in every state.
FailureHandled ==
    /\ uncaught = "none"
    /\ pc = "exited" => exitCode \in {0, 1} /\ Reported
    /\ (CreateResolved /\ Answered2xx(CreateResult) /\ CreateResult.body.form # "object") =>
          /\ HasLine("Error")
          /\ ~HasLine("SUCCESS!")
          /\ ~success
          /\ pc = "exited" => exitCode = 1
    /\ (CreateResolved /\ AnsweredObject(CreateResult)) =>
          /\ ~HasLine("Error")
          /\ success <=> /\ HasField(CreateResult, "success")
                         /\ IsTruthyJson(CreateResult.body.obj["success"])
          /\ success <=> HasLine("SUCCESS!")
          /\ ~success <=> HasLine("FAILED")
          /\ (~success /\ ~HasField(CreateResult, "error")) =>
                LineValue("FAILED") = JStr("Unknown error")

RECURSIVE ReadString(_, _, _)
ReadString(t, i, acc) ==
    IF i > Len(t) THEN [ok |-> FALSE, val |-> acc, next |-> i]
    ELSE IF t[i] = QUOTE THEN [ok |-> TRUE, val |-> acc, next |-> i + 1]
    ELSE IF t[i] = BSLASH
         THEN IF i + 1 > Len(t) THEN [ok |-> FALSE, val |-> acc, next |-> i]
              ELSE IF t[i + 1] \in {QUOTE, BSLASH}
                   THEN ReadString(t, i + 2, Append(acc, t[i + 1]))
              ELSE IF /\ i + 5 <= Len(t)
                      /\ SubSeq(t, i + 1, i + 5) = <<"u", "c", "1", "f", "c">>
                   THEN ReadString(t, i + 6, Append(acc, HANGUL))
              ELSE [ok |-> FALSE, val |-> acc, next |-> i]
    ELSE ReadString(t, i + 1, Append(acc, t[i]))

\* The members of a JSON object from position i, where a key's opening
\* quote is expected, up to the closing brace that ends the text.
RECURSIVE ReadMembers(_, _, _)
ReadMembers(t, i, acc) ==
    IF i > Len(t) \/ t[i] # QUOTE THEN [ok |-> FALSE, items |-> acc]
    ELSE LET k == ReadString(t, i + 1, <<>>)
             c == k.next
         IN  IF ~k.ok \/ Len(k.val) # 1 \/ c + 2 > Len(t) \/ t[c] # ":" \/ t[c + 1] # " "
                \/ t[c + 2] # QUOTE
             THEN [ok |-> FALSE, items |-> acc]
             ELSE LET v    == ReadString(t, c + 3, <<>>)
                      e    == v.next
                      more == Append(acc, [key |-> k.val[1], val |-> v.val])
                  IN  IF ~v.ok \/ e > Len(t) THEN [ok |-> FALSE, items |-> acc]
                      ELSE IF t[e] = "}" THEN [ok |-> e = Len(t), items |-> more]
                      ELSE IF t[e] = "," /\ e + 1 <= Len(t) /\ t[e + 1] = " "
                           THEN ReadMembers(t, e + 2, more)
                      ELSE [ok |-> FALSE, items |-> acc]

\* The object a JSON parser reads from the request body.
ReadObject(t) ==
    IF Len(t) < 2 \/ t[1] # "{" THEN [ok |-> FALSE, items |-> <<>>]
    ELSE IF t[2] = "}" THEN [ok |-> Len(t) = 2, items |-> <<>>]
    ELSE ReadMembers(t, 2, <<>>)

SentBody == calls[CHOOSE i \in Posts : TRUE].data

\* The members a request is to carry for the arguments that satisfy keep.
Wanted(keep(_)) ==
    (IF keep(project_name) THEN <<[key |-> "projectName", val |-> project_name.s]>> ELSE <<>>)
      \o (IF keep(sequence_name)
          THEN <<[key |-> "sequenceName", val |-> sequence_name.s]>> ELSE <<>>)
      \o (IF keep(preset_name) THEN <<[key |-> "presetName", val |-> preset_name.s]>> ELSE <<>>)

Provided(a) == ~a.isNone

NonEmpty(a) == ~a.isNone /\ a.s # <<>>

\* ---------------------------------------------------------------------- C4
\* C4 as stated: the body sent is the JSON object with one member per
\* argument the caller provided, its value unchanged, and no other member.
RequestConstructionAsStated ==
    Posts # {} =>
        /\ ReadObject(SentBody).ok
        /\ ReadObject(SentBody).items = Wanted(Provided)

\* C4 (request construction, amended): the body sent is the JSON object with
\* one member per argument the caller provided as a non-empty string, its
\* value unchanged, and no other member; with no such argument it is {}.
RequestConstruction ==
    Posts # {} =>
        /\ ReadObject(SentBody).ok
        /\ ReadObject(SentBody).items = Wanted(NonEmpty)
        /\ (\A a \in {project_name, sequence_name, preset_name} : ~NonEmpty(a)) =>
              SentBody = <<"{", "}">>

\* A call with a project name holding a quote and no sequence name.
RequestConstructionWitness ==
    /\ Posts # {}
    /\ project_name = Str(<<QUOTE>>)
    /\ sequence_name = None
    /\ preset_name = Str(<<HANGUL>>)
    /\ Len(ReadObject(SentBody).items) = 2

\* --------------------------------------------------------------------- C10
Keys(items) == {items[i].key : i \in DOMAIN items}

\* An empty string read as an absent argument.
AsAbsent(a) == IF ~a.isNone /\ a.s = <<>> THEN None ELSE a

\* C10 (empty is absent): the keys sent are those of the arguments that are
\* non-empty strings; an argument that is the empty string changes nothing
\* in the body compared to the same call with that argument absent; with
\* every argument absent or empty the body is {}.
EmptyIsAbsent ==
    Posts # {} =>
        /\ Keys(ReadObject(SentBody).items)
              = {k \in {"projectName", "sequenceName", "presetName"} :
                    \/ k = "projectName" /\ NonEmpty(project_name)
                    \/ k = "sequenceName" /\ NonEmpty(sequence_name)
                    \/ k = "presetName" /\ NonEmpty(preset_name)}
        /\ SentBody = RequestData(BuildPayload(AsAbsent(project_name),
                                               AsAbsent(sequence_name),
                                               AsAbsent(preset_name)))
        /\ (\A a \in {project_name, sequence_name, preset_name} : a.isNone \/ a.s = <<>>) =>
              SentBody = <<"{", "}">>

\* A call whose project name is the empty string, next to a real sequence name.
EmptyIsAbsentWitness ==
    /\ Posts # {}
    /\ project_name = Str(<<>>)
    /\ sequence_name = Str(<<"F">>)
    /\ preset_name = None
    /\ Keys(ReadObject(SentBody).items) = {"sequenceName"}

====
